---- MODULE Spec2Model ----
(***************************************************************************)
(* PDF Mixer Pro v1.2: the page-range parser, the metadata sanitizer and   *)
(* the page operations of PDFMixerBase, as a state machine.                *)
(*                                                                         *)
(* Strings that the program takes apart (range expressions) are sequences  *)
(* of one-character strings.                                               *)
(***************************************************************************)
EXTENDS Integers, Sequences, FiniteSets, TLC

VARIABLES
    pc,           \* "start" before the modelled call, "done" after it
    ranges_str,   \* parse_page_ranges: the range expression
    total_pages,  \* parse_page_ranges: the page count it is parsed against
    idxs,         \* parse_page_ranges: the returned list
    fs,           \* the files on disk: path -> content, for the paths that exist
    items,        \* self.listbox: the listed source paths
    sel,          \* self.listbox.curselection(): the selected positions, 0-based
    busy,         \* self._busy_visible
    last          \* what the handler that ran did and told the user

vars == <<pc, ranges_str, total_pages, idxs, fs, items, sel, busy, last>>

\* ------------------------------------------------------------------ bounds
MaxLen == 5
MaxTotal == 3
MaxPages == 2

\* ------------------------------------------------------- python primitives
Digits == {"0", "1", "2", "3", "4", "5", "6", "7", "8", "9"}

DigitVal(c) ==
    CASE c = "0" -> 0 [] c = "1" -> 1 [] c = "2" -> 2 [] c = "3" -> 3
      [] c = "4" -> 4 [] c = "5" -> 5 [] c = "6" -> 6 [] c = "7" -> 7
      [] c = "8" -> 8 [] c = "9" -> 9

RECURSIVE lstrip(_)
lstrip(s) == IF s # <<>> /\ Head(s) = " " THEN lstrip(Tail(s)) ELSE s

RECURSIVE rstrip(_)
rstrip(s) ==
    IF s # <<>> /\ s[Len(s)] = " " THEN rstrip(SubSeq(s, 1, Len(s) - 1)) ELSE s

\* str.strip(): leading and trailing whitespace removed
strip(s) == rstrip(lstrip(s))

Contains(s, c) == \E i \in 1..Len(s) : s[i] = c

FirstIndex(s, c) == CHOOSE i \in 1..Len(s) : s[i] = c /\ \A j \in 1..(i - 1) : s[j] # c

\* str.split(sep): every occurrence of sep cuts, empty parts are kept
RECURSIVE split(_, _)
split(s, sep) ==
    IF Contains(s, sep)
    THEN LET i == FirstIndex(s, sep)
         IN  <<SubSeq(s, 1, i - 1)>> \o split(SubSeq(s, i + 1, Len(s)), sep)
    ELSE <<s>>

\* str.split(sep, 1): cut at the first occurrence only
split1(s, sep) ==
    LET i == FirstIndex(s, sep)
    IN  <<SubSeq(s, 1, i - 1), SubSeq(s, i + 1, Len(s))>>

RECURSIVE DecimalValue(_)
DecimalValue(d) ==
    IF d = <<>> THEN 0
    ELSE 10 * DecimalValue(SubSeq(d, 1, Len(d) - 1)) + DigitVal(d[Len(d)])

\* int(s): surrounding whitespace is ignored, one optional sign, then at least
\* one digit and nothing else; anything else raises ValueError (ok = FALSE)
int(s) ==
    LET t == strip(s)
        signed == t # <<>> /\ t[1] \in {"-", "+"}
        d == IF signed THEN Tail(t) ELSE t
    IN  IF d # <<>> /\ \A i \in 1..Len(d) : d[i] \in Digits
        THEN [ok |-> TRUE,
              val |-> IF t[1] = "-" THEN 0 - DecimalValue(d) ELSE DecimalValue(d)]
        ELSE [ok |-> FALSE, val |-> 0]

\* range(start, stop, step) as the list of its values, step # 0
range(start, stop, step) ==
    LET n == IF step > 0
             THEN (IF stop > start THEN (stop - start + step - 1) \div step ELSE 0)
             ELSE (IF start > stop
                   THEN (start - stop + (0 - step) - 1) \div (0 - step) ELSE 0)
    IN  [k \in 1..n |-> start + (k - 1) * step]

\* -------------------------------------------------------- parse_page_ranges
\* PartIndices with the upper bound of the page test lost
PartIndices_NoUpperBound(part, total) ==
    LET InRange(v) == 1 <= v
    IN  IF Contains(part, "-")
        THEN LET ab == split1(part, "-")
                 a == int(ab[1])
                 b == int(ab[2])
             IN  IF ~a.ok \/ ~b.ok
                 THEN <<>>
                 ELSE LET start == a.val
                          end == b.val
                          step == IF start <= end THEN 1 ELSE 0 - 1
                          hit == SelectSeq(range(start, end + step, step), InRange)
                      IN  [k \in 1..Len(hit) |-> hit[k] - 1]
        ELSE LET v == int(part)
             IN  IF v.ok /\ InRange(v.val) THEN <<v.val - 1>> ELSE <<>>

\* PartIndices with range(start, end, step): the last page of a pair is lost
PartIndices_EndExclusive(part, total) ==
    LET InRange(v) == 1 <= v /\ v <= total
    IN  IF Contains(part, "-")
        THEN LET ab == split1(part, "-")
                 a == int(ab[1])
                 b == int(ab[2])
             IN  IF ~a.ok \/ ~b.ok
                 THEN <<>>
                 ELSE LET start == a.val
                          end == b.val
                          step == IF start <= end THEN 1 ELSE 0 - 1
                          hit == SelectSeq(range(start, end, step), InRange)
                      IN  [k \in 1..Len(hit) |-> hit[k] - 1]
        ELSE LET v == int(part)
             IN  IF v.ok /\ InRange(v.val) THEN <<v.val - 1>> ELSE <<>>

\* the indices one stripped part of the expression appends to `indices`
PartIndices(part, total) ==
    LET InRange(v) == 1 <= v /\ v <= total
    IN  IF Contains(part, "-")
        THEN LET ab == split1(part, "-")
                 a == int(ab[1])
                 b == int(ab[2])
             IN  IF ~a.ok \/ ~b.ok
                 THEN <<>>
                 ELSE LET start == a.val
                          end == b.val
                          step == IF start <= end THEN 1 ELSE 0 - 1
                          hit == SelectSeq(range(start, end + step, step), InRange)
                      IN  [k \in 1..Len(hit) |-> hit[k] - 1]
        ELSE LET v == int(part)
             IN  IF v.ok /\ InRange(v.val) THEN <<v.val - 1>> ELSE <<>>

\* a stripped part on which int() raises ValueError
Malformed(part) ==
    IF Contains(part, "-")
    THEN ~int(split1(part, "-")[1]).ok \/ ~int(split1(part, "-")[2]).ok
    ELSE ~int(part).ok

\* CollectIndices with `break` for `continue`: a malformed part ends the loop
RECURSIVE CollectIndices_Abort(_, _)
CollectIndices_Abort(parts, total) ==
    IF parts = <<>> \/ Malformed(strip(Head(parts))) THEN <<>>
    ELSE PartIndices(strip(Head(parts)), total)
             \o CollectIndices_Abort(Tail(parts), total)

\* the list `indices` after the loop over the parts
RECURSIVE CollectIndices(_, _)
CollectIndices(parts, total) ==
    IF parts = <<>> THEN <<>>
    ELSE PartIndices(strip(Head(parts)), total) \o CollectIndices(Tail(parts), total)

\* "dedup keep order": the loop over indices with the set `seen`
RECURSIVE DedupFrom(_, _)
DedupFrom(indices, seen) ==
    IF indices = <<>> THEN <<>>
    ELSE IF Head(indices) \in seen
         THEN DedupFrom(Tail(indices), seen)
         ELSE <<Head(indices)>> \o DedupFrom(Tail(indices), seen \cup {Head(indices)})

\* Dedup that returns the distinct indices in ascending order
RECURSIVE SortedFrom(_)
SortedFrom(S) ==
    IF S = {} THEN <<>>
    ELSE LET m == CHOOSE x \in S : \A y \in S : x <= y
         IN  <<m>> \o SortedFrom(S \ {m})

Dedup_Sorted(indices) == SortedFrom({indices[i] : i \in 1..Len(indices)})

Dedup(indices) == DedupFrom(indices, {})

parse_page_ranges(str, total) ==
    IF str = <<>> \/ strip(str) = <<>>
    THEN <<>>
    ELSE Dedup(CollectIndices(split(str, ","), total))

\* ------------------------------------------------- the parser's inputs
\* (the parser on its own is set up after the files, below)
Alphabet == {"1", "2", "-", ",", " ", "x"}

Strings == UNION {[1..n -> Alphabet] : n \in 0..MaxLen}

\* the expressions the specification works out, with their page counts
Examples ==
    { <<<<"1", "-", "3", ",", "5", ",", "1", "0">>, 10>>,
      <<<<"5", "-", "3">>, 10>>,
      <<<<"3", ",", "1", "-", "3">>, 5>>,
      <<<<>>, 5>>,
      <<<<"9", "9">>, 5>> }

\* ------------------------------------------------------ documents and files
\* A page is [doc, num, rot, portrait]: the document it was read from, its
\* 1-based number there, its /Rotate value, and whether its mediabox is higher
\* than wide. A file is [kind, pages, info, xmp]: kind "pdf"
\* for a readable document, "partial" for what an interrupted write leaves;
\* info is the set of keys of the /Info dictionary, xmp says whether the catalog
\* holds a /Metadata stream.
Rotations == {0, 90, 180, 270}

PartialFile == [kind |-> "partial", pages |-> <<>>, info |-> {}, xmp |-> FALSE]

NoFiles == [q \in {} |-> PartialFile]

exists(f, path) == path \in DOMAIN f

\* open(path, "wb") ... write ... close: path holds `file`
WriteFile(f, path, file) ==
    [q \in DOMAIN f \cup {path} |-> IF q = path THEN file ELSE f[q]]

\* os.replace(src, dst): dst holds what src held, src is gone
os_replace(f, src, dst) ==
    IF src = dst THEN f
    ELSE [q \in (DOMAIN f \ {src}) \cup {dst} |-> IF q = dst THEN f[src] ELSE f[q]]

\* os.remove(path)
os_remove(f, path) == [q \in DOMAIN f \ {path} |-> f[q]]

\* PdfWriter(): no page; pypdf creates the writer with an /Info dictionary that
\* holds /Producer, and with no /Metadata stream
WriterDefaultInfo == {"/Producer"}

PdfWriter == [pages |-> <<>>, info |-> WriterDefaultInfo, xmp |-> FALSE]

\* add_page with the pages taken last to first
add_pages_Reversed(w, pages) ==
    [w EXCEPT !.pages = @ \o [k \in 1..Len(pages) |-> pages[Len(pages) + 1 - k]]]

\* writer.add_page(page), for every page of `pages` in order
add_pages(w, pages) == [w EXCEPT !.pages = @ \o pages]

\* writer.add_metadata(infos): the entries of infos are added to /Info
add_metadata(w, infos) == [w EXCEPT !.info = @ \cup infos]

\* writer.xmp_metadata = None: the catalog's /Metadata entry is dropped
clear_xmp(w) == [w EXCEPT !.xmp = FALSE]

\* writer.write(f): the file the writer serialises to
Written(w) == [kind |-> "pdf", pages |-> w.pages, info |-> w.info, xmp |-> w.xmp]

\* PdfReader(path) succeeds on a readable document only
Readable(f, path) == exists(f, path) /\ f[path].kind = "pdf"

\* What can go wrong in one handler. write1 is the handler's own write of the
\* assembled document; the others are the steps of the sanitize pass: "ok", or
\* the step that raises ("read": PdfReader, "open": open(dst, "wb"), "write":
\* writer.write after dst was created). meta and xmp say that the
\* metadata-clearing call raises, which the sanitizer swallows.
NoFault ==
    [write1 |-> "ok", replace |-> FALSE, san |-> "ok", meta |-> FALSE, xmp |-> FALSE,
     remove |-> FALSE, restore |-> FALSE]

AllFaults ==
    [write1 : {"ok", "open", "write"}, replace : BOOLEAN,
     san : {"ok", "read", "open", "write"}, meta : BOOLEAN, xmp : BOOLEAN,
     remove : BOOLEAN, restore : BOOLEAN]

\* the faults of a bare sanitize_pdf_no_metadata call: a step that is not
\* reached has no fault
SanitizeFaults ==
    {x \in AllFaults :
        /\ x.write1 = "ok" /\ ~x.replace /\ ~x.remove /\ ~x.restore
        /\ x.san = "read" => ~x.meta /\ ~x.xmp}

\* one fault record for each course a handler can take: a step that is not
\* reached has no fault, and a swallowed failure of a clearing call is
\* followed by no other fault
Faults ==
    {x \in AllFaults :
        /\ x.write1 # "ok" => ~x.replace /\ x.san = "ok" /\ ~x.remove /\ ~x.restore
        /\ x.replace => x.san = "ok" /\ ~x.remove
        /\ x.san # "ok" => ~x.remove
        /\ x.restore => x.replace \/ x.san # "ok" \/ x.remove
        /\ x.meta \/ x.xmp =>
              x.write1 = "ok" /\ ~x.replace /\ x.san = "ok" /\ ~x.remove}

\* the sanitizer without the try/except around its two clearing calls
sanitize_pdf_no_metadata_Unguarded(f, src_pdf, dst_pdf, flt) ==
    IF ~Readable(f, src_pdf) \/ flt.san = "read" \/ flt.meta \/ flt.xmp
    THEN [fs |-> f, raised |-> TRUE]
    ELSE IF flt.san = "open" THEN [fs |-> f, raised |-> TRUE]
    ELSE IF flt.san = "write"
         THEN [fs |-> WriteFile(f, dst_pdf, PartialFile), raised |-> TRUE]
         ELSE [fs |-> WriteFile(f, dst_pdf,
                         Written(clear_xmp(add_metadata(
                             add_pages(PdfWriter, f[src_pdf].pages), {})))),
               raised |-> FALSE]

\* sanitize_pdf_no_metadata(src_pdf, dst_pdf) on the files f: the files after
\* the call and whether it raised
sanitize_pdf_no_metadata(f, src_pdf, dst_pdf, flt) ==
    IF ~Readable(f, src_pdf) \/ flt.san = "read"
    THEN [fs |-> f, raised |-> TRUE]
    ELSE LET w1 == add_pages(PdfWriter, f[src_pdf].pages)
             w2 == IF flt.meta THEN w1 ELSE add_metadata(w1, {})
             w3 == IF flt.xmp THEN w2 ELSE clear_xmp(w2)
         IN  IF flt.san = "open"
             THEN [fs |-> f, raised |-> TRUE]
             ELSE IF flt.san = "write"
                  THEN [fs |-> WriteFile(f, dst_pdf, PartialFile), raised |-> TRUE]
                  ELSE [fs |-> WriteFile(f, dst_pdf, Written(w3)), raised |-> FALSE]

\* ------------------------------------------------------- what a handler did
\* op: the handler; msgs: the message boxes it showed, in order ("warning",
\* "error", "info"); raised: it ended by an exception; asked: it asked for a
\* save path; answered: a range expression was entered; out_path: the path
\* chosen (<<>>: none); assembled: the page list
\* of every writer it filled, with out_paths the path of each; san: "ok" when
\* the sanitize pass went through, "failed" when its except branch ran; flt:
\* the faults of a bare sanitizer call; count: the number of converted files
\* the final message reports; conv: the converter outcome of the batch's
\* faulted file; mode, start_from: what the interleave dialog passed on; srcs:
\* the source paths the handler read, in the order it read them; n: the chunk
\* size given to split; degrees: the angle given to rotate; calls: for each
\* file a conversion batch attempted, what the converters could do with it
\* (conv), the converters invoked (tried), whether the conversion raised and
\* the errors its message quotes (causes).
Blank ==
    [op |-> "none", msgs |-> <<>>, raised |-> FALSE, asked |-> FALSE,
     answered |-> FALSE, out_path |-> <<>>, assembled |-> <<>>, out_paths |-> <<>>,
     san |-> "none", flt |-> NoFault, count |-> 0, conv |-> "none",
     mode |-> "none", start_from |-> 0, srcs |-> <<>>, n |-> 0, degrees |-> 0,
     calls |-> <<>>]

\* ------------------------------------------------- the parser on its own
InitParse ==
    /\ pc = "start"
    /\ \/ ranges_str \in Strings /\ total_pages \in 0..MaxTotal
       \/ \E e \in Examples : ranges_str = e[1] /\ total_pages = e[2]
    /\ idxs = <<>>
    /\ fs = NoFiles
    /\ items = <<>>
    /\ sel = {}
    /\ busy = FALSE
    /\ last = Blank

ParseCall ==
    /\ pc = "start"
    /\ idxs' = parse_page_ranges(ranges_str, total_pages)
    /\ pc' = "done"
    /\ UNCHANGED <<ranges_str, total_pages, fs, items, sel, busy, last>>

NextParse == ParseCall

SpecParse == InitParse /\ [][NextParse]_vars

\* ---------------------------------------------- the sanitizer on its own
SanSrc == <<"in", ".pdf">>

SanDst == <<"clean", ".pdf">>

\* the page lists of up to MaxPages pages, every page with any rotation
PageLists(name) ==
    UNION {{[k \in 1..n |-> [doc |-> name, num |-> k, rot |-> r[k], portrait |-> TRUE]] :
               r \in [1..n -> Rotations]} : n \in 0..MaxPages}

\* the documents a source file can hold
SourceDocs(name) ==
    {[kind |-> "pdf", pages |-> p, info |-> i, xmp |-> x] :
        p \in PageLists(name), i \in SUBSET {"/Author", "/Producer"}, x \in BOOLEAN}

InitSanitize ==
    /\ pc = "start"
    /\ ranges_str = <<>>
    /\ total_pages = 0
    /\ idxs = <<>>
    /\ \E d \in SourceDocs("in") \cup {PartialFile} : fs = WriteFile(NoFiles, SanSrc, d)
    /\ items = <<>>
    /\ sel = {}
    /\ busy = FALSE
    /\ last = Blank

SanitizeCall ==
    /\ pc = "start"
    /\ \E flt \in SanitizeFaults :
           LET r == sanitize_pdf_no_metadata(fs, SanSrc, SanDst, flt)
           IN  /\ fs' = r.fs
               /\ last' = [Blank EXCEPT !.op = "sanitize", !.raised = r.raised,
                                        !.flt = flt]
    /\ pc' = "done"
    /\ UNCHANGED <<ranges_str, total_pages, idxs, items, sel, busy>>

SanTwice == <<"clean2", ".pdf">>

\* a second call, on the file the first call wrote
SanitizeAgain ==
    /\ pc = "done"
    /\ last.op = "sanitize"
    /\ \E flt \in SanitizeFaults :
           LET r == sanitize_pdf_no_metadata(fs, SanDst, SanTwice, flt)
           IN  /\ fs' = r.fs
               /\ last' = [Blank EXCEPT !.op = "sanitize2", !.raised = r.raised,
                                        !.flt = flt]
    /\ pc' = "twice"
    /\ UNCHANGED <<ranges_str, total_pages, idxs, items, sel, busy>>

NextSanitize ==
    \/ SanitizeCall
    \/ SanitizeAgain

SpecSanitize == InitSanitize /\ [][NextSanitize]_vars

\* ------------------------------------------------------------ the handlers
\* A path is the sequence of the pieces of its text, ".pdf" always a piece of
\* its own, so that str.replace(".pdf", ...) can be followed.
SrcA == <<"A", ".pdf">>

SrcB == <<"B", ".pdf">>

OutLower == <<"out", ".pdf">>

OutUpper == <<"OUT", ".PDF">>

\* what ask_save_as returns: a path, or the empty string on cancel
SaveAnswers == {<<>>, OutLower, OutUpper}

\* path.replace(".pdf", ".__tmp__.pdf"): every occurrence, case-sensitive
RECURSIVE replace_pdf(_)
replace_pdf(path) ==
    IF path = <<>> THEN <<>>
    ELSE (IF Head(path) = ".pdf" THEN <<".__tmp__", ".pdf">> ELSE <<Head(path)>>)
             \o replace_pdf(Tail(path))

\* os.path.splitext(os.path.basename(path))[0]
BaseName(path) == path[Len(path) - 1]

\* the sanitize pass of a handler over the file it has just written:
\* tmp2 = out_path.replace(...); try: os.replace, sanitize, os.remove;
\* except: if os.path.exists(tmp2): os.replace(tmp2, out_path)
SanitizeOutput(f, out_path, flt) ==
    LET tmp2 == replace_pdf(out_path)
        Except(g) ==
            [fs |-> IF exists(g, tmp2) /\ ~flt.restore
                    THEN os_replace(g, tmp2, out_path) ELSE g,
             san |-> "failed"]
    IN  IF flt.replace
        THEN Except(f)
        ELSE LET r == sanitize_pdf_no_metadata(os_replace(f, out_path, tmp2),
                                               tmp2, out_path, flt)
             IN  IF r.raised \/ flt.remove
                 THEN Except(r.fs)
                 ELSE [fs |-> os_remove(r.fs, tmp2), san |-> "ok"]

\* with open(out_path, "wb") as f: writer.write(f), then the sanitize pass
SaveAndSanitize(f, out_path, pages, flt) ==
    IF flt.write1 = "open"
    THEN [fs |-> f, raised |-> TRUE, san |-> "none"]
    ELSE IF flt.write1 = "write"
         THEN [fs |-> WriteFile(f, out_path, PartialFile), raised |-> TRUE,
               san |-> "none"]
         ELSE LET r == SanitizeOutput(
                           WriteFile(f, out_path, Written(add_pages(PdfWriter, pages))),
                           out_path, flt)
              IN  [fs |-> r.fs, raised |-> FALSE, san |-> r.san]

\* the empty-selection test of extract and delete taken out
NothingSelected_Never(ix) == FALSE

\* `if not idxs` / `if not to_delete`: nothing was selected
NothingSelected(ix) == ix = <<>>

\* the range expressions typed into the dialogs
RangeInputs ==
    { <<>>, <<" ">>, <<"x">>, <<"9">>, <<"1">>, <<"2">>, <<"3">>,
      <<"1", "-", "2">>, <<"2", "-", "1">>, <<"1", "-", "3">>, <<"2", ",", "x">> }

\* a document of n pages, all with rotation r
MkDoc(name, n, r) ==
    [kind |-> "pdf",
     pages |-> [k \in 1..n |-> [doc |-> name, num |-> k, rot |-> r, portrait |-> TRUE]],
     info |-> {"/Author", "/Producer"}, xmp |-> TRUE]

Init ==
    /\ pc = "idle"
    /\ ranges_str = <<>>
    /\ total_pages = 0
    /\ idxs = <<>>
    /\ \E a \in {MkDoc("A", n, 90) : n \in 0..MaxPages} \cup {PartialFile},
          b \in {MkDoc("B", n, 0) : n \in 0..MaxPages} :
           fs = WriteFile(WriteFile(NoFiles, SrcA, a), SrcB, b)
    /\ items \in {<<>>, <<SrcA>>, <<SrcA, SrcB>>, <<SrcB, SrcA>>}
    /\ sel \in SUBSET (0..(Len(items) - 1))
    /\ busy = FALSE
    /\ last = Blank

\* the listed file a single-file handler works on
SelectedPath == items[(CHOOSE i \in sel : TRUE) + 1]

\* the guards every single-file handler starts with; `name` is the handler
NoSingleFile(name) ==
    /\ items = <<>> \/ Cardinality(sel) # 1
    /\ last' = [Blank EXCEPT !.op = name, !.msgs = <<"warning">>]
    /\ UNCHANGED <<ranges_str, total_pages, idxs, fs, busy>>

\* safe_open_reader returned None: it has shown the error
Unreadable(name) ==
    /\ items # <<>> /\ Cardinality(sel) = 1
    /\ ~Readable(fs, SelectedPath)
    /\ last' = [Blank EXCEPT !.op = name, !.msgs = <<"error">>]
    /\ UNCHANGED <<ranges_str, total_pages, idxs, fs, busy>>

HasSingleFile == items # <<>> /\ Cardinality(sel) = 1 /\ Readable(fs, SelectedPath)

\* the merge with the listed files taken in the order of their names
AllPages_SortedByName(f, paths) ==
    LET Listed(q) == \E k \in 1..Len(paths) : paths[k] = q
    IN  (IF Listed(SrcA) THEN f[SrcA].pages ELSE <<>>)
        \o (IF Listed(SrcB) THEN f[SrcB].pages ELSE <<>>)

\* all the pages of the listed files, file after file
RECURSIVE AllPages(_, _)
AllPages(f, paths) ==
    IF paths = <<>> THEN <<>> ELSE f[Head(paths)].pages \o AllPages(f, Tail(paths))

merge_serial ==
    /\ pc = "idle"
    /\ pc' = "done"
    /\ UNCHANGED <<ranges_str, total_pages, idxs, items, sel>>
    /\ \/ /\ items = <<>>
          /\ last' = [Blank EXCEPT !.op = "merge", !.msgs = <<"warning">>]
          /\ UNCHANGED <<fs, busy>>
       \/ /\ items # <<>>
          /\ \E out \in SaveAnswers :
                IF out = <<>>
                THEN /\ last' = [Blank EXCEPT !.op = "merge", !.asked = TRUE]
                     /\ UNCHANGED <<fs, busy>>
                ELSE IF \E k \in 1..Len(items) : ~Readable(fs, items[k])
                     THEN \* safe_open_reader shows the error; return; finally
                          /\ last' = [Blank EXCEPT !.op = "merge", !.asked = TRUE,
                                           !.out_path = out, !.msgs = <<"error">>]
                          /\ busy' = FALSE
                          /\ UNCHANGED fs
                     ELSE \E flt \in Faults :
                            LET pages == AllPages(fs, items)
                                r == SaveAndSanitize(fs, out, pages, flt)
                            IN  /\ fs' = r.fs
                                /\ busy' = FALSE
                                /\ last' = [Blank EXCEPT
                                       !.op = "merge", !.asked = TRUE, !.out_path = out,
                                       !.assembled = <<pages>>, !.out_paths = <<out>>,
                                       !.srcs = items,
                                       !.count = IF r.raised THEN 0 ELSE Len(pages),
                                       !.san = r.san,
                                       !.msgs = IF r.raised THEN <<"error">>
                                                ELSE <<"info">>]

\* the pages at the positions ix taken from the last position to the first
PickPages_Backwards(pages, ix) ==
    [k \in 1..Len(ix) |-> pages[ix[Len(ix) + 1 - k] + 1]]

\* the pages of `pages` at the 0-based positions ix, in the order of ix
PickPages(pages, ix) == [k \in 1..Len(ix) |-> pages[ix[k] + 1]]

\* the tail shared by the handlers that wrap their work in try/finally:
\* write, sanitize, report; an exception leaves through the finally
SaveInTryFinally(name, ans, out, pages) ==
    \E flt \in Faults :
        LET r == SaveAndSanitize(fs, out, pages, flt)
        IN  /\ fs' = r.fs
            /\ busy' = FALSE
            /\ last' = [Blank EXCEPT
                   !.op = name, !.answered = ans, !.asked = TRUE, !.out_path = out,
                   !.assembled = <<pages>>, !.out_paths = <<out>>, !.san = r.san,
                   !.raised = r.raised,
                   !.msgs = IF r.raised THEN <<>> ELSE <<"info">>]

extract_pages_dialog ==
    /\ pc = "idle"
    /\ pc' = "done"
    /\ UNCHANGED <<items, sel>>
    /\ \/ NoSingleFile("extract")
       \/ Unreadable("extract")
       \/ /\ HasSingleFile
          /\ total_pages' = Len(fs[SelectedPath].pages)
          /\ \/ \* askstring was cancelled
                /\ last' = [Blank EXCEPT !.op = "extract"]
                /\ UNCHANGED <<ranges_str, idxs, fs, busy>>
             \/ \E ranges \in RangeInputs :
                   LET ix == parse_page_ranges(ranges, Len(fs[SelectedPath].pages))
                   IN  /\ ranges_str' = ranges
                       /\ idxs' = ix
                       /\ IF NothingSelected(ix)
                          THEN /\ last' = [Blank EXCEPT !.op = "extract",
                                                        !.answered = TRUE,
                                                        !.msgs = <<"warning">>]
                               /\ UNCHANGED <<fs, busy>>
                          ELSE \E out \in SaveAnswers :
                                 IF out = <<>>
                                 THEN /\ last' = [Blank EXCEPT !.op = "extract",
                                                               !.answered = TRUE,
                                                               !.asked = TRUE]
                                      /\ UNCHANGED <<fs, busy>>
                                 ELSE SaveInTryFinally("extract", TRUE, out,
                                          PickPages(fs[SelectedPath].pages, ix))

\* the kept-page loop with its test turned round: `if i in to_delete`
KeptPages_KeepsDeleted(pages, to_delete) ==
    LET Keep(pg) == (pg.num - 1) \in to_delete
    IN  SelectSeq(pages, Keep)

\* the pages whose 0-based position is not in to_delete, in source order
KeptPages(pages, to_delete) ==
    LET Keep(pg) == (pg.num - 1) \notin to_delete
    IN  SelectSeq(pages, Keep)

delete_pages_dialog ==
    /\ pc = "idle"
    /\ pc' = "done"
    /\ UNCHANGED <<items, sel>>
    /\ \/ NoSingleFile("delete")
       \/ Unreadable("delete")
       \/ /\ HasSingleFile
          /\ total_pages' = Len(fs[SelectedPath].pages)
          /\ \/ \* askstring was cancelled
                /\ last' = [Blank EXCEPT !.op = "delete"]
                /\ UNCHANGED <<ranges_str, idxs, fs, busy>>
             \/ \E ranges \in RangeInputs :
                   LET ix == parse_page_ranges(ranges, Len(fs[SelectedPath].pages))
                       to_delete == {ix[k] : k \in 1..Len(ix)}
                   IN  /\ ranges_str' = ranges
                       /\ idxs' = ix
                       /\ IF NothingSelected(ix)
                          THEN /\ last' = [Blank EXCEPT !.op = "delete",
                                                        !.answered = TRUE,
                                                        !.msgs = <<"warning">>]
                               /\ UNCHANGED <<fs, busy>>
                          ELSE \E out \in SaveAnswers :
                                 IF out = <<>>
                                 THEN /\ last' = [Blank EXCEPT !.op = "delete",
                                                               !.answered = TRUE,
                                                               !.asked = TRUE]
                                      /\ UNCHANGED <<fs, busy>>
                                 ELSE SaveInTryFinally("delete", TRUE, out,
                                          KeptPages(fs[SelectedPath].pages, to_delete))

\* range(total - 1, 0, -1) over the pages: the first page is left out
ReversedPages_DropFirst(pages) ==
    [k \in 1..(Len(pages) - 1) |-> pages[Len(pages) + 1 - k]]

\* range(total - 1, -1, -1) over the pages
ReversedPages(pages) == [k \in 1..Len(pages) |-> pages[Len(pages) + 1 - k]]

reverse_pages_dialog ==
    /\ pc = "idle"
    /\ pc' = "done"
    /\ UNCHANGED <<ranges_str, total_pages, idxs, items, sel>>
    /\ \/ NoSingleFile("reverse")
       \/ Unreadable("reverse")
       \/ /\ HasSingleFile
          /\ \E out \in SaveAnswers :
                IF out = <<>>
                THEN /\ last' = [Blank EXCEPT !.op = "reverse", !.asked = TRUE]
                     /\ UNCHANGED <<fs, busy>>
                ELSE SaveInTryFinally("reverse", FALSE, out,
                         ReversedPages(fs[SelectedPath].pages))

\* reader.pages[i] for a Python index i: a negative index counts from the end,
\* an index outside the list raises IndexError (ok = FALSE)
PageAt(pages, i) ==
    LET j == IF i < 0 THEN Len(pages) + i ELSE i
    IN  IF j < 0 \/ j >= Len(pages)
        THEN [ok |-> FALSE, pages |-> <<>>]
        ELSE [ok |-> TRUE, pages |-> <<pages[j + 1]>>]

NoPage == [ok |-> TRUE, pages |-> <<>>]

\* set(seq)
Elems(seq) == {seq[i] : i \in 1..Len(seq)}

\* parity taken on the zero-based index
is_odd_ZeroBased(i1) == (i1 - 1) % 2 = 1

is_odd(i1) == i1 % 2 = 1

Modes == {"alternate", "a_odd_b_even", "a_even_b_odd", "a_odd", "b_even"}

Max(x, y) == IF x >= y THEN x ELSE y

Min(x, y) == IF x <= y THEN x ELSE y

\* the alternate loop with `and` for `or`: it ends with the shorter document
RECURSIVE AlternateFrom_StopAtShorter(_, _, _, _)
AlternateFrom_StopAtShorter(A, B, ia, ib) ==
    IF ~(ia < Len(A) /\ ib < Len(B))
    THEN NoPage
    ELSE LET ga == PageAt(A, ia)
             gb == PageAt(B, ib)
         IN  IF ~ga.ok \/ ~gb.ok
             THEN [ok |-> FALSE, pages |-> <<>>]
             ELSE LET rest == AlternateFrom_StopAtShorter(A, B, ia + 1, ib + 1)
                  IN  [ok |-> rest.ok, pages |-> ga.pages \o gb.pages \o rest.pages]

\* the `while ia < pa or ib < pb` loop of mode "alternate"
RECURSIVE AlternateFrom(_, _, _, _)
AlternateFrom(A, B, ia, ib) ==
    IF ~(ia < Len(A) \/ ib < Len(B))
    THEN NoPage
    ELSE LET ga == IF ia < Len(A) THEN PageAt(A, ia) ELSE NoPage
             gb == IF ib < Len(B) THEN PageAt(B, ib) ELSE NoPage
         IN  IF ~ga.ok \/ ~gb.ok
             THEN [ok |-> FALSE, pages |-> <<>>]
             ELSE LET rest == AlternateFrom(A, B,
                                  IF ia < Len(A) THEN ia + 1 ELSE ia,
                                  IF ib < Len(B) THEN ib + 1 ELSE ib)
                  IN  [ok |-> rest.ok, pages |-> ga.pages \o gb.pages \o rest.pages]

\* the body of the `for i in range(...)` loop of a parity mode, for one i
ParityStep(A, B, mode, i) ==
    LET wantA == CASE mode = "a_odd_b_even" -> i <= Len(A) /\ is_odd(i)
                   [] mode = "a_even_b_odd" -> i <= Len(A) /\ ~is_odd(i)
                   [] mode = "a_odd" -> is_odd(i)
                   [] OTHER -> FALSE
        wantB == CASE mode = "a_odd_b_even" -> i <= Len(B) /\ ~is_odd(i)
                   [] mode = "a_even_b_odd" -> i <= Len(B) /\ is_odd(i)
                   [] mode = "b_even" -> ~is_odd(i)
                   [] OTHER -> FALSE
        ga == IF wantA THEN PageAt(A, i - 1) ELSE NoPage
        gb == IF wantB THEN PageAt(B, i - 1) ELSE NoPage
    IN  [ok |-> ga.ok /\ gb.ok, pages |-> ga.pages \o gb.pages]

RECURSIVE ParityLoop(_, _, _, _)
ParityLoop(A, B, mode, is) ==
    IF is = <<>> THEN NoPage
    ELSE LET g == ParityStep(A, B, mode, Head(is))
         IN  IF ~g.ok
             THEN [ok |-> FALSE, pages |-> <<>>]
             ELSE LET rest == ParityLoop(A, B, mode, Tail(is))
                  IN  [ok |-> rest.ok, pages |-> g.pages \o rest.pages]

\* _do_interleave starting at page 1 whatever start_from is
Interleave_FromFirst(A, B, mode, start_from) ==
    LET hi == CASE mode = "a_odd" -> Len(A)
                [] mode = "b_even" -> Len(B)
                [] OTHER -> Max(Len(A), Len(B))
        r == IF mode = "alternate"
             THEN AlternateFrom(A, B, 0, 0)
             ELSE ParityLoop(A, B, mode, range(1, hi + 1, 1))
    IN  IF mode \in Modes
        THEN [ok |-> r.ok, pages |-> r.pages, known |-> TRUE]
        ELSE [ok |-> TRUE, pages |-> <<>>, known |-> FALSE]

\* _do_interleave with an unknown mode treated as "alternate"
Interleave_FallbackAlternate(A, B, mode, start_from) ==
    LET hi == CASE mode = "a_odd" -> Len(A)
                [] mode = "b_even" -> Len(B)
                [] OTHER -> Max(Len(A), Len(B))
        r == IF mode \notin Modes \ {"alternate"}
             THEN AlternateFrom(A, B, start_from - 1, start_from - 1)
             ELSE ParityLoop(A, B, mode, range(start_from, hi + 1, 1))
    IN  [ok |-> r.ok, pages |-> r.pages, known |-> TRUE]

\* the pages _do_interleave adds to its writer; ok = FALSE: IndexError;
\* known = FALSE: the final else ("Mod necunoscut")
Interleave(A, B, mode, start_from) ==
    LET hi == CASE mode = "a_odd" -> Len(A)
                [] mode = "b_even" -> Len(B)
                [] OTHER -> Max(Len(A), Len(B))
        r == IF mode = "alternate"
             THEN AlternateFrom(A, B, start_from - 1, start_from - 1)
             ELSE ParityLoop(A, B, mode, range(start_from, hi + 1, 1))
    IN  IF mode \in Modes
        THEN [ok |-> r.ok, pages |-> r.pages, known |-> TRUE]
        ELSE [ok |-> TRUE, pages |-> <<>>, known |-> FALSE]

\* what the spinbox "Paginare incepe de la" can hold
StartValues == (0 - 1)..(MaxPages + 1)

\* the OK button of open_interleave_dialog:
\* (self._busy_on(), self._do_interleave(...), self._busy_off())
open_interleave_dialog ==
    /\ pc = "idle"
    /\ pc' = "done"
    /\ UNCHANGED <<ranges_str, total_pages, idxs, items, sel>>
    /\ \/ /\ Len(items) < 2
          /\ last' = [Blank EXCEPT !.op = "interleave", !.msgs = <<"warning">>]
          /\ UNCHANGED <<fs, busy>>
       \/ /\ Len(items) >= 2
          /\ \E path_a \in Elems(items), path_b \in Elems(items),
                mode \in Modes \cup {"unknown"}, start_from \in StartValues :
                IF ~Readable(fs, path_a) \/ ~Readable(fs, path_b)
                THEN /\ last' = [Blank EXCEPT
                            !.op = "interleave",
                            !.msgs = (IF Readable(fs, path_a) THEN <<>> ELSE <<"error">>)
                                  \o (IF Readable(fs, path_b) THEN <<>> ELSE <<"error">>)]
                     /\ busy' = FALSE
                     /\ UNCHANGED fs
                ELSE \E out \in SaveAnswers :
                       LET r == Interleave(fs[path_a].pages, fs[path_b].pages,
                                           mode, start_from)
                           Seen == [Blank EXCEPT !.op = "interleave", !.asked = TRUE,
                                                 !.out_path = out, !.mode = mode,
                                                 !.start_from = start_from,
                                                 !.srcs = <<path_a, path_b>>]
                       IN  IF out = <<>>
                           THEN /\ last' = Seen
                                /\ busy' = FALSE
                                /\ UNCHANGED fs
                           ELSE IF ~r.known
                           THEN /\ last' = [Seen EXCEPT !.msgs = <<"error">>]
                                /\ busy' = FALSE
                                /\ UNCHANGED fs
                           ELSE IF ~r.ok
                           THEN \* IndexError leaves through the lambda
                                /\ last' = [Seen EXCEPT !.raised = TRUE]
                                /\ busy' = TRUE
                                /\ UNCHANGED fs
                           ELSE \E flt \in Faults :
                                  LET w == SaveAndSanitize(fs, out, r.pages, flt)
                                  IN  /\ fs' = w.fs
                                      /\ busy' = w.raised
                                      /\ last' = [Seen EXCEPT
                                             !.assembled = <<r.pages>>,
                                             !.out_paths = <<out>>, !.san = w.san,
                                             !.raised = w.raised,
                                             !.msgs = IF w.raised THEN <<>>
                                                      ELSE <<"info">>]

\* rotate_page setting /Rotate to d instead of adding d to it
rotate_page_Absolute(page, degrees) ==
    LET d == degrees % 360
    IN  IF d = 0 THEN [ok |-> TRUE, page |-> page]
        ELSE IF d % 90 # 0 THEN [ok |-> FALSE, page |-> page]
        ELSE [ok |-> TRUE, page |-> [page EXCEPT !.rot = d]]

\* rotate_page(page, degrees): page.rotate(d) adds d to /Rotate and raises
\* ValueError unless d is a multiple of 90
rotate_page(page, degrees) ==
    LET d == degrees % 360
    IN  IF d = 0 THEN [ok |-> TRUE, page |-> page]
        ELSE IF d % 90 # 0 THEN [ok |-> FALSE, page |-> page]
        ELSE [ok |-> TRUE, page |-> [page EXCEPT !.rot = @ + d]]

\* the `for i in range(total)` loop of _do_rotate
RotatedPages(pages, idx_set, degrees) ==
    [ok |-> \A k \in 1..Len(pages) :
                (k - 1) \in idx_set => rotate_page(pages[k], degrees).ok,
     pages |-> [k \in 1..Len(pages) |->
                   IF (k - 1) \in idx_set
                   THEN rotate_page(pages[k], degrees).page ELSE pages[k]]]

\* _do_rotate with every expression handed to the parser
RotateIndices_AlwaysParse(ranges, total) == parse_page_ranges(ranges, total)

\* _do_rotate with an expression that selects nothing taken as "all pages"
RotateIndices_NoneMeansAll(ranges, total) ==
    IF parse_page_ranges(ranges, total) # <<>>
    THEN parse_page_ranges(ranges, total)
    ELSE range(0, total, 1)

\* idxs = parse_page_ranges(ranges, total) if ranges.strip() else
\* list(range(total))
RotateIndices(ranges, total) ==
    IF strip(ranges) # <<>>
    THEN parse_page_ranges(ranges, total)
    ELSE range(0, total, 1)

\* what the spinbox "Grade" can hold
DegreeInputs == {0, 90, 0 - 90, 450, 45}

\* rotate_pages_dialog and the OK button of its dialog:
\* (self._busy_on(), self._do_rotate(...), self._busy_off())
rotate_pages_dialog ==
    /\ pc = "idle"
    /\ pc' = "done"
    /\ UNCHANGED <<items, sel>>
    /\ \/ NoSingleFile("rotate")
       \/ Unreadable("rotate")
       \/ /\ HasSingleFile
          /\ total_pages' = Len(fs[SelectedPath].pages)
          /\ \E ranges \in RangeInputs, degrees \in DegreeInputs, out \in SaveAnswers :
                LET total == Len(fs[SelectedPath].pages)
                    ix == RotateIndices(ranges, total)
                    r == RotatedPages(fs[SelectedPath].pages, Elems(ix), degrees)
                    Seen == [Blank EXCEPT !.op = "rotate", !.answered = TRUE,
                                          !.asked = TRUE, !.out_path = out,
                                          !.degrees = degrees]
                IN  /\ ranges_str' = ranges
                    /\ idxs' = ix
                    /\ IF out = <<>>
                       THEN /\ last' = Seen
                            /\ busy' = FALSE
                            /\ UNCHANGED fs
                       ELSE IF ~r.ok
                       THEN \* ValueError leaves through the lambda
                            /\ last' = [Seen EXCEPT !.raised = TRUE]
                            /\ busy' = TRUE
                            /\ UNCHANGED fs
                       ELSE \E flt \in Faults :
                              LET w == SaveAndSanitize(fs, out, r.pages, flt)
                              IN  /\ fs' = w.fs
                                  /\ busy' = w.raised
                                  /\ last' = [Seen EXCEPT
                                         !.assembled = <<r.pages>>,
                                         !.out_paths = <<out>>, !.san = w.san,
                                         !.raised = w.raised,
                                         !.msgs = IF w.raised THEN <<>> ELSE <<"info">>]

\* str(n) for the page numbers that occur in a file name: the decimal digits
RECURSIVE Str(_)
Str(n) ==
    LET digit == <<"0", "1", "2", "3", "4", "5", "6", "7", "8", "9">>[(n % 10) + 1]
    IN  IF n < 10 THEN <<digit>> ELSE Str(n \div 10) \o <<digit>>

OutDir == "outdir/"

\* os.path.join(out_dir, f"{base}_part_{start+1}-{end}.pdf")
PartPath(base, start, end) ==
    <<OutDir, base, "_part_">> \o Str(start + 1) \o <<"-">> \o Str(end) \o <<".pdf">>

\* the split loop over range(0, total - n + 1, n): a last chunk of fewer than n
\* pages is not written
RECURSIVE SplitFrom_DropPartial(_, _, _, _, _, _, _)
SplitFrom_DropPartial(f, pages, base, n, k, kf, flt) ==
    LET starts == range(0, Len(pages) - n + 1, n)
    IN  IF k > Len(starts)
        THEN [fs |-> f, raised |-> FALSE, assembled |-> <<>>, out_paths |-> <<>>,
              failed |-> FALSE]
        ELSE LET start == starts[k]
                 end == Min(start + n, Len(pages))
                 chunk == SubSeq(pages, start + 1, end)
                 out == PartPath(base, start, end)
                 w == SaveAndSanitize(f, out, chunk, IF k = kf THEN flt ELSE NoFault)
             IN  IF w.raised
                 THEN [fs |-> w.fs, raised |-> TRUE, assembled |-> <<chunk>>,
                       out_paths |-> <<out>>, failed |-> FALSE]
                 ELSE LET rest == SplitFrom_DropPartial(w.fs, pages, base, n, k + 1, kf, flt)
                      IN  [fs |-> rest.fs, raised |-> rest.raised,
                           assembled |-> <<chunk>> \o rest.assembled,
                           out_paths |-> <<out>> \o rest.out_paths,
                           failed |-> w.san = "failed" \/ rest.failed]

\* the `for start in range(0, total, n)` loop of split_every_dialog from its
\* k-th round on; the fault flt strikes in round kf
RECURSIVE SplitFrom(_, _, _, _, _, _, _)
SplitFrom(f, pages, base, n, k, kf, flt) ==
    LET starts == range(0, Len(pages), n)
    IN  IF k > Len(starts)
        THEN [fs |-> f, raised |-> FALSE, assembled |-> <<>>, out_paths |-> <<>>,
              failed |-> FALSE]
        ELSE LET start == starts[k]
                 end == Min(start + n, Len(pages))
                 chunk == SubSeq(pages, start + 1, end)
                 out == PartPath(base, start, end)
                 w == SaveAndSanitize(f, out, chunk, IF k = kf THEN flt ELSE NoFault)
             IN  IF w.raised
                 THEN [fs |-> w.fs, raised |-> TRUE, assembled |-> <<chunk>>,
                       out_paths |-> <<out>>, failed |-> FALSE]
                 ELSE LET rest == SplitFrom(w.fs, pages, base, n, k + 1, kf, flt)
                      IN  [fs |-> rest.fs, raised |-> rest.raised,
                           assembled |-> <<chunk>> \o rest.assembled,
                           out_paths |-> <<out>> \o rest.out_paths,
                           failed |-> w.san = "failed" \/ rest.failed]

split_every_dialog ==
    /\ pc = "idle"
    /\ pc' = "done"
    /\ UNCHANGED <<ranges_str, total_pages, idxs, items, sel>>
    /\ \/ NoSingleFile("split")
       \/ Unreadable("split")
       \/ /\ HasSingleFile
          /\ \/ \* askinteger or askdirectory was cancelled
                /\ last' = [Blank EXCEPT !.op = "split"]
                /\ UNCHANGED <<fs, busy>>
             \/ \E n \in 1..(MaxPages + 1), kf \in 0..MaxPages, flt \in Faults :
                   LET r == SplitFrom(fs, fs[SelectedPath].pages,
                                      BaseName(SelectedPath), n, 1, kf, flt)
                   IN  /\ kf = 0 <=> flt = NoFault
                       /\ fs' = r.fs
                       /\ busy' = FALSE
                       /\ last' = [Blank EXCEPT
                              !.op = "split", !.n = n, !.assembled = r.assembled,
                              !.out_paths = r.out_paths, !.raised = r.raised,
                              !.san = IF r.failed THEN "failed"
                                      ELSE IF r.out_paths = <<>> THEN "none" ELSE "ok",
                              !.msgs = IF r.raised THEN <<>> ELSE <<"info">>]

Next ==
    \/ merge_serial
    \/ open_interleave_dialog
    \/ extract_pages_dialog
    \/ delete_pages_dialog
    \/ rotate_pages_dialog
    \/ reverse_pages_dialog
    \/ split_every_dialog

Spec == Init /\ [][Next]_vars

\* ------------------------------------------------- conversion handlers
MaxBatch == 2

\* the files picked in askopenfilenames, with extension ext
OfficeInputs(ext) ==
    { <<"d1/", "report", ext>>, <<"d2/", "report", ext>>, <<"d1/", "notes", ext>> }

\* askopenfilenames gives each picked file once
Distinct(paths) == \A i, j \in 1..Len(paths) : paths[i] = paths[j] => i = j

Batches(ext) ==
    {paths \in UNION {[1..n -> OfficeInputs(ext)] : n \in 1..MaxBatch} : Distinct(paths)}

Kinds == {"word", "excel", "ppt"}

\* what the converters do with one file: Office converts it; Office fails and
\* LibreOffice converts it; both fail
ConvOutcomes == {"office", "libre", "fail"}

\* the PDF a converter makes of in_path: the Excel export of Office is
\* landscape, a Word document is portrait
Converted(in_path, kind, conv) ==
    [kind |-> "pdf",
     pages |-> << [doc |-> in_path, num |-> 1, rot |-> 0,
                   portrait |-> (kind = "word" \/ (kind = "excel" /\ conv = "libre"))] >>,
     info |-> {"/Author", "/Producer"}, xmp |-> TRUE]

\* convert_office_doc_to_pdf that gives up when Office raised
convert_office_doc_to_pdf_NoFallback(f, in_path, out_pdf, kind, conv) ==
    IF kind \in Kinds /\ conv = "office"
    THEN [fs |-> WriteFile(f, out_pdf, Converted(in_path, kind, "office")),
          raised |-> FALSE, tried |-> <<"office">>, causes |-> {}]
    ELSE [fs |-> f, raised |-> TRUE, tried |-> <<"office">>, causes |-> {"office"}]

\* convert_office_doc_to_pdf(in_path, out_pdf, kind): Office first, any
\* exception of it (an unknown kind included) falls back to LibreOffice; when
\* that raises too, one RuntimeError whose message quotes the Office error
\* and the LibreOffice error. tried: the converters invoked, in order;
\* causes: the errors the raised message quotes
convert_office_doc_to_pdf(f, in_path, out_pdf, kind, conv) ==
    IF kind \in Kinds /\ conv = "office"
    THEN [fs |-> WriteFile(f, out_pdf, Converted(in_path, kind, "office")),
          raised |-> FALSE, tried |-> <<"office">>, causes |-> {}]
    ELSE IF conv # "fail"
         THEN [fs |-> WriteFile(f, out_pdf, Converted(in_path, kind, "libre")),
               raised |-> FALSE,
               tried |-> IF kind \in Kinds THEN <<"office", "libre">> ELSE <<"libre">>,
               causes |-> {}]
         ELSE [fs |-> f, raised |-> TRUE,
               tried |-> IF kind \in Kinds THEN <<"office", "libre">> ELSE <<"libre">>,
               causes |-> {"office", "libre"}]

\* auto_rotate_pdf_pages_to_landscape(src_pdf, dst_pdf)
auto_rotate_pdf_pages_to_landscape(f, src_pdf, dst_pdf, fails) ==
    IF ~Readable(f, src_pdf) \/ fails
    THEN [fs |-> f, raised |-> TRUE]
    ELSE LET turned == [k \in 1..Len(f[src_pdf].pages) |->
                          LET p == f[src_pdf].pages[k]
                          IN  IF p.portrait THEN [p EXCEPT !.rot = @ + 90] ELSE p]
         IN  [fs |-> WriteFile(f, dst_pdf, Written(add_pages(PdfWriter, turned))),
              raised |-> FALSE]

NoItemFault == [conv |-> "office", rot |-> FALSE, flt |-> NoFault]

\* the faults of one file of a batch: a step that is not reached has no fault
ItemFaults ==
    {x \in [conv : ConvOutcomes, rot : BOOLEAN, flt : Faults] :
        /\ x.flt.write1 = "ok" /\ ~x.flt.replace /\ ~x.flt.restore
        /\ x.conv = "fail" => ~x.rot /\ x.flt = NoFault
        /\ x.rot => x.flt = NoFault}

\* try: os.remove(p) except Exception: pass, for each p of ps
RECURSIVE remove_each(_, _, _)
remove_each(f, ps, fails) ==
    IF ps = <<>> THEN f
    ELSE remove_each(IF exists(f, Head(ps)) /\ ~fails THEN os_remove(f, Head(ps)) ELSE f,
                     Tail(ps), fails)

\* the body of the `for in_path in paths` loop of the three conversion dialogs
ConvertOne(f, in_path, kind, force_landscape, x) ==
    LET base == BaseName(in_path)
        tmp_pdf == <<OutDir, base, ".__tmp__", ".pdf">>
        mid_pdf == <<OutDir, base, ".__mid__", ".pdf">>
        final_pdf == <<OutDir, base, ".pdf">>
        c == convert_office_doc_to_pdf(f, in_path, tmp_pdf, kind, x.conv)
        a == IF force_landscape
             THEN auto_rotate_pdf_pages_to_landscape(c.fs, tmp_pdf, mid_pdf, x.rot)
             ELSE [fs |-> c.fs, raised |-> FALSE]
        z == sanitize_pdf_no_metadata(a.fs, IF force_landscape THEN mid_pdf ELSE tmp_pdf,
                                      final_pdf, x.flt)
        call == [conv |-> x.conv, tried |-> c.tried, raised |-> c.raised,
                 causes |-> c.causes]
    IN  IF c.raised
        THEN [fs |-> c.fs, raised |-> TRUE, final |-> final_pdf, call |-> call]
        ELSE IF a.raised
        THEN [fs |-> a.fs, raised |-> TRUE, final |-> final_pdf, call |-> call]
        ELSE IF z.raised
        THEN [fs |-> z.fs, raised |-> TRUE, final |-> final_pdf, call |-> call]
        ELSE [fs |-> remove_each(z.fs,
                         IF kind = "excel" THEN <<tmp_pdf, mid_pdf>> ELSE <<tmp_pdf>>,
                         x.flt.remove),
              raised |-> FALSE, final |-> final_pdf, call |-> call]

\* the loop from its k-th file on; the fault x strikes the kf-th file
RECURSIVE ConvertFrom(_, _, _, _, _, _, _)
ConvertFrom(f, paths, kind, force_landscape, k, kf, x) ==
    IF k > Len(paths)
    THEN [fs |-> f, raised |-> FALSE, ok |-> 0, out_paths |-> <<>>, calls |-> <<>>]
    ELSE LET r == ConvertOne(f, paths[k], kind, force_landscape,
                             IF k = kf THEN x ELSE NoItemFault)
         IN  IF r.raised
             THEN [fs |-> r.fs, raised |-> TRUE, ok |-> 0, out_paths |-> <<>>,
                   calls |-> <<r.call>>]
             ELSE LET rest == ConvertFrom(r.fs, paths, kind, force_landscape,
                                          k + 1, kf, x)
                  IN  [fs |-> rest.fs, raised |-> rest.raised, ok |-> 1 + rest.ok,
                       out_paths |-> <<r.final>> \o rest.out_paths,
                       calls |-> <<r.call>> \o rest.calls]

\* a conversion dialog: nothing picked or no output folder ends it at once; an
\* exception of the loop is shown as an error, the busy indicator goes off
ConvertDialog(name, kind, ext, forces) ==
    /\ pc' = "done"
    /\ UNCHANGED <<ranges_str, total_pages, idxs, items, sel>>
    /\ \/ /\ last' = [Blank EXCEPT !.op = name]
          /\ UNCHANGED <<fs, busy>>
       \/ \E paths \in Batches(ext), force_landscape \in forces,
             kf \in 0..MaxBatch, x \in ItemFaults :
             LET r == ConvertFrom(fs, paths, kind, force_landscape, 1, kf, x)
             IN  /\ kf <= Len(paths)
                 /\ kf = 0 <=> x = NoItemFault
                 /\ x.rot => force_landscape
                 /\ fs' = r.fs
                 /\ busy' = FALSE
                 /\ last' = [Blank EXCEPT
                        !.op = name, !.out_paths = r.out_paths, !.count = r.ok,
                        !.conv = x.conv, !.flt = x.flt,
                        !.srcs = paths, !.calls = r.calls,
                        !.san = IF r.raised THEN "failed" ELSE "ok",
                        !.msgs = IF r.raised THEN <<"error">> ELSE <<"info">>]

convert_ppt_dialog ==
    /\ pc = "idle"
    /\ ConvertDialog("ppt", "ppt", ".pptx", {FALSE})

convert_excel_dialog ==
    /\ pc = "idle"
    /\ ConvertDialog("excel", "excel", ".xlsx", BOOLEAN)

convert_word_dialog ==
    /\ pc = "idle"
    /\ ConvertDialog("word", "word", ".docx", {FALSE})

\* the pictures picked in askopenfilenames
ImageInputs == { <<"p/", "b.png">>, <<"p/", "A.png">>, <<"q/", "A.png">> }

ImageBatches ==
    {paths \in UNION {[1..n -> ImageInputs] : n \in 1..MaxBatch} : Distinct(paths)}

\* sorted(image_paths, key=lambda p: os.path.basename(p).lower()): a stable
\* sort, "a.png" before "b.png"
SortByName(paths) ==
    SelectSeq(paths, LAMBDA q : q[2] = "A.png") \o SelectSeq(paths, LAMBDA q : q[2] = "b.png")

\* images_to_pdf_with_options(image_paths, out_pdf, opts): one page per picture
images_to_pdf_with_options(f, image_paths, out_pdf, sort_by_name, fails) ==
    IF fails
    THEN [fs |-> f, raised |-> TRUE]
    ELSE LET ordered == IF sort_by_name THEN SortByName(image_paths) ELSE image_paths
         IN  [fs |-> WriteFile(f, out_pdf,
                         [kind |-> "pdf",
                          pages |-> [k \in 1..Len(ordered) |->
                                        [doc |-> ordered[k], num |-> 1, rot |-> 0,
                                         portrait |-> TRUE]],
                          info |-> {"/Producer"}, xmp |-> FALSE]),
              raised |-> FALSE]

images_to_pdf_dialog ==
    /\ pc = "idle"
    /\ pc' = "done"
    /\ UNCHANGED <<ranges_str, total_pages, idxs, items, sel>>
    /\ \/ /\ last' = [Blank EXCEPT !.op = "images"]
          /\ UNCHANGED <<fs, busy>>
       \/ \E paths \in ImageBatches, sort_by_name \in BOOLEAN,
             out_path \in SaveAnswers \ {<<>>}, x \in ItemFaults :
             LET tmp_pdf == replace_pdf(out_path)
                 c == images_to_pdf_with_options(fs, paths, tmp_pdf, sort_by_name,
                                                 x.conv = "fail")
                 z == sanitize_pdf_no_metadata(c.fs, tmp_pdf, out_path, x.flt)
                 done == ~c.raised /\ ~z.raised
             IN  /\ x.conv # "libre" /\ ~x.rot
                 /\ fs' = IF c.raised THEN c.fs
                          ELSE IF z.raised THEN z.fs
                          ELSE remove_each(z.fs, <<tmp_pdf>>, x.flt.remove)
                 /\ busy' = FALSE
                 /\ last' = [Blank EXCEPT
                        !.op = "images", !.asked = TRUE, !.out_path = out_path,
                        !.out_paths = IF done THEN <<out_path>> ELSE <<>>,
                        !.conv = x.conv, !.flt = x.flt,
                        !.san = IF done THEN "ok" ELSE "failed",
                        !.msgs = IF done THEN <<"info">> ELSE <<"error">>]

InitConvert ==
    /\ pc = "idle"
    /\ ranges_str = <<>>
    /\ total_pages = 0
    /\ idxs = <<>>
    /\ fs = NoFiles
    /\ items = <<>>
    /\ sel = {}
    /\ busy = FALSE
    /\ last = Blank

NextConvert ==
    \/ convert_ppt_dialog
    \/ convert_excel_dialog
    \/ convert_word_dialog
    \/ images_to_pdf_dialog

SpecConvert == InitConvert /\ [][NextConvert]_vars

\* ------------------------------------------------ claims about the parser
NoDuplicates(seq) == \A i, j \in 1..Len(seq) : i # j => seq[i] # seq[j]

Parts == split(ranges_str, ",")

\* the 1-based page numbers a stripped part names: the number itself, or every
\* number between the two ends of a pair
NamedByPart(part) ==
    IF Malformed(part) THEN {}
    ELSE IF Contains(part, "-")
         THEN LET a == int(split1(part, "-")[1]).val
                  b == int(split1(part, "-")[2]).val
              IN  {v \in (IF a <= b THEN a ELSE b)..(IF a <= b THEN b ELSE a) : TRUE}
         ELSE {int(part).val}

NamedValues == UNION {NamedByPart(strip(Parts[k])) : k \in 1..Len(Parts)}

\* C1: every returned index i satisfies 0 <= i < total_pages, no index occurs
\* twice, and the result holds exactly the named pages that lie in
\* [1, total_pages]: a value outside that interval contributes nothing.
C1_IndicesInRange ==
    pc = "done" =>
        /\ \A i \in 1..Len(idxs) : 0 <= idxs[i] /\ idxs[i] < total_pages
        /\ NoDuplicates(idxs)
        /\ Elems(idxs) = {v - 1 : v \in {w \in NamedValues : 1 <= w /\ w <= total_pages}}

C1_Witness ==
    /\ pc = "done"
    /\ idxs # <<>>
    /\ \E v \in NamedValues : v < 1 \/ v > total_pages

FirstPos(seq, x) ==
    CHOOSE i \in 1..Len(seq) : seq[i] = x /\ \A j \in 1..(i - 1) : seq[j] # x

RawIndices == CollectIndices(Parts, total_pages)

\* C2: the result lists the in-range indices in the order of their first
\* occurrence in the expression, never sorted; a repeated index keeps its first
\* position ("3,1-3" with total 5 yields [2,0,1]).
C2_FirstSeenOrder ==
    pc = "done" /\ strip(ranges_str) # <<>> =>
        /\ Elems(idxs) = Elems(RawIndices)
        /\ NoDuplicates(idxs)
        /\ \A i, j \in 1..Len(idxs) :
               i < j => FirstPos(RawIndices, idxs[i]) < FirstPos(RawIndices, idxs[j])
        /\ (ranges_str = <<"3", ",", "1", "-", "3">> /\ total_pages = 5
               => idxs = <<2, 0, 1>>)

C2_Witness ==
    /\ pc = "done"
    /\ ranges_str = <<"3", ",", "1", "-", "3">>
    /\ total_pages = 5
    /\ idxs = <<2, 0, 1>>
    /\ Len(RawIndices) > Len(idxs)

\* the pages a, a+1, ..., b or a, a-1, ..., b, both ends included
PairPages(a, b) ==
    [k \in 1..((IF a <= b THEN b - a ELSE a - b) + 1) |->
        IF a <= b THEN a + (k - 1) ELSE a - (k - 1)]

PairIndices(a, b, total) ==
    LET InRange(v) == 1 <= v /\ v <= total
        hit == SelectSeq(PairPages(a, b), InRange)
    IN  [k \in 1..Len(hit) |-> hit[k] - 1]

IsPair(part) == Contains(part, "-") /\ ~Malformed(part)

\* C3: a pair a-b generates a, a+1, ..., b ascending when a <= b and
\* a, a-1, ..., b descending when a > b, both ends included ("5-3" with total
\* 10 yields [4,3,2]; "1-3,5,10" with total 10 yields [0,1,2,4,9]).
C3_PairBothDirections ==
    pc = "done" =>
        /\ \A k \in 1..Len(Parts) :
               LET part == strip(Parts[k])
               IN  IsPair(part) =>
                       PartIndices(part, total_pages)
                           = PairIndices(int(split1(part, "-")[1]).val,
                                         int(split1(part, "-")[2]).val, total_pages)
        /\ (Len(Parts) = 1 /\ IsPair(strip(Parts[1])) /\ strip(ranges_str) # <<>>
               => idxs = PairIndices(int(split1(strip(Parts[1]), "-")[1]).val,
                                     int(split1(strip(Parts[1]), "-")[2]).val,
                                     total_pages))
        /\ (ranges_str = <<"5", "-", "3">> /\ total_pages = 10 => idxs = <<4, 3, 2>>)
        /\ (ranges_str = <<"1", "-", "3", ",", "5", ",", "1", "0">> /\ total_pages = 10
               => idxs = <<0, 1, 2, 4, 9>>)

C3_Witness ==
    /\ pc = "done"
    /\ ranges_str = <<"5", "-", "3">>
    /\ total_pages = 10
    /\ idxs = <<4, 3, 2>>

\* str.join: the parts with sep between them
RECURSIVE join(_, _)
join(parts, sep) ==
    IF parts = <<>> THEN <<>>
    ELSE IF Len(parts) = 1 THEN parts[1]
         ELSE parts[1] \o <<sep>> \o join(Tail(parts), sep)

\* the expression with its k-th part taken out
WithoutPart(k) ==
    join(SubSeq(Parts, 1, k - 1) \o SubSeq(Parts, k + 1, Len(Parts)), ",")

\* C4: a part on which integer parsing fails is skipped: the call returns, and
\* what it returns is what the expression without that part parses to.
C4_MalformedSkipped ==
    pc = "done" =>
        \A k \in 1..Len(Parts) :
            Malformed(strip(Parts[k]))
                => idxs = parse_page_ranges(WithoutPart(k), total_pages)

C4_Witness ==
    /\ pc = "done"
    /\ idxs # <<>>
    /\ \E k \in 2..Len(Parts) :
           /\ Malformed(strip(Parts[k - 1]))
           /\ ~Malformed(strip(Parts[k]))
           /\ PartIndices(strip(Parts[k]), total_pages) # <<>>

\* ---------------------------------------------- claims about the handlers
Sources == {SrcA, SrcB}

\* C5: in extraction and in deletion, an expression that resolves to no page
\* makes the handler warn and return before it asks for a save path and before
\* it writes any file.
C5_EmptySelectionAborts ==
    pc = "done" /\ last.op \in {"extract", "delete"} /\ last.answered /\ idxs = <<>> =>
        /\ last.msgs = <<"warning">>
        /\ ~last.asked
        /\ last.assembled = <<>>
        /\ DOMAIN fs = Sources

C5_Witness ==
    /\ pc = "done"
    /\ last.op = "delete"
    /\ last.answered
    /\ ranges_str = <<"9">>
    /\ total_pages = 2
    /\ last.msgs = <<"warning">>

\* C6: no handler writes a zero-page PDF: whenever the page list a handler
\* assembled is empty it warns and writes nothing, and does not report success.
C6_NoZeroPageOutput ==
    pc = "done" =>
        \A k \in 1..Len(last.assembled) :
            last.assembled[k] = <<>> =>
                /\ "warning" \in Elems(last.msgs)
                /\ "info" \notin Elems(last.msgs)
                /\ ~exists(fs, last.out_paths[k])

\* the file a handler writes before the sanitize pass
PreSanitized(pages) == Written(add_pages(PdfWriter, pages))

\* C7: when the sanitize pass of an assembly handler fails at any step, the
\* pre-sanitized file with the complete assembled pages is at the chosen path.
C7_FallbackKeepsOutput ==
    pc = "done" /\ last.san = "failed" =>
        /\ exists(fs, last.out_path)
        /\ fs[last.out_path].kind = "pdf"
        /\ fs[last.out_path].pages = last.assembled[1]

\* C8: a file that a handler leaves at its final path while reporting success
\* carries no /Info entry and no /Metadata stream.
C8_SuccessOutputHasNoMetadata ==
    pc = "done" /\ "info" \in Elems(last.msgs) =>
        \A k \in 1..Len(last.out_paths) :
            exists(fs, last.out_paths[k]) =>
                fs[last.out_paths[k]].info = {} /\ ~fs[last.out_paths[k]].xmp

\* a working file: its name holds .__tmp__ or .__mid__
TempFile(path) == \E k \in 1..Len(path) : path[k] \in {".__tmp__", ".__mid__"}

\* C9: when a handler has ended, by success or by failure, no .__tmp__.pdf and
\* no .__mid__.pdf working file is on disk.
C9_NoTempFileRemains ==
    pc = "done" => \A path \in DOMAIN fs : ~TempFile(path)

\* C10: the file the sanitizer writes has the source's pages in order, each with
\* its rotation, and carries no /Info dictionary and no /Metadata stream.
C10_SanitizeContract ==
    pc = "done" /\ last.op = "sanitize" /\ ~last.raised =>
        /\ fs[SanDst].kind = "pdf"
        /\ fs[SanDst].pages = fs[SanSrc].pages
        /\ fs[SanDst].info = {}
        /\ ~fs[SanDst].xmp

\* C11: the sanitizer is idempotent: sanitizing the file it wrote gives a file
\* with the same pages in the same order and the same /Info and /Metadata state.
C11_SanitizeIdempotent ==
    pc = "twice" /\ ~last.raised =>
        /\ fs[SanTwice].kind = "pdf"
        /\ fs[SanTwice].pages = fs[SanDst].pages
        /\ fs[SanTwice].info = fs[SanDst].info
        /\ fs[SanTwice].xmp = fs[SanDst].xmp

C11_Witness ==
    /\ pc = "twice"
    /\ ~last.raised
    /\ Len(fs[SanSrc].pages) = 2
    /\ fs[SanSrc].pages[1].rot # fs[SanSrc].pages[2].rot
    /\ fs[SanSrc].info = {"/Author", "/Producer"}
    /\ fs[SanSrc].xmp
    /\ fs[SanTwice].pages = fs[SanSrc].pages

\* C12: when a clearing call of the sanitizer raises (and nothing else fails),
\* the sanitizer returns normally and the destination holds every page of the
\* source in order.
C12_ClearingFailureTolerated ==
    /\ pc = "done" /\ last.op = "sanitize" /\ Readable(fs, SanSrc)
    /\ last.flt.san = "ok" /\ (last.flt.meta \/ last.flt.xmp)
    => /\ ~last.raised
       /\ exists(fs, SanDst)
       /\ fs[SanDst].kind = "pdf"
       /\ fs[SanDst].pages = fs[SanSrc].pages

C12_Witness ==
    /\ pc = "done" /\ last.op = "sanitize"
    /\ last.flt.san = "ok" /\ last.flt.meta /\ last.flt.xmp
    /\ ~last.raised
    /\ Len(fs[SanSrc].pages) = 2
    /\ fs[SanDst].pages = fs[SanSrc].pages

\* the part of C10 about the pages: they are written as they were read
SanitizeKeepsPages ==
    pc = "done" /\ last.op = "sanitize" /\ ~last.raised =>
        /\ fs[SanDst].kind = "pdf"
        /\ fs[SanDst].pages = fs[SanSrc].pages
        /\ fs[SanSrc].info \cap fs[SanDst].info \subseteq WriterDefaultInfo

\* ---------------------------------------------- claims about interleave
RECURSIVE Flatten(_)
Flatten(ss) == IF ss = <<>> THEN <<>> ELSE Head(ss) \o Flatten(Tail(ss))

\* the pages of a document of n pages named `name`
Doc(name, n) == MkDoc(name, n, 0).pages

\* an interleave that read both documents, got a save path and filled its
\* writer without an exception
Interleaved == pc = "done" /\ last.op = "interleave" /\ last.assembled # <<>>

SrcPagesA == fs[last.srcs[1]].pages

SrcPagesB == fs[last.srcs[2]].pages

\* for n = s, s+1, ...: A's page n if it has one, then B's page n if it has one
AlternateExpected(A, B, s) ==
    Flatten([k \in 1..(Max(Len(A), Len(B)) - s + 1) |->
                LET n == s + k - 1
                IN  (IF n <= Len(A) THEN <<A[n]>> ELSE <<>>)
                    \o (IF n <= Len(B) THEN <<B[n]>> ELSE <<>>)])

\* how often page x occurs in the sequence out
Occurrences(out, x) == Cardinality({k \in 1..Len(out) : out[k] = x})

C13_Example ==
    Interleave(Doc("A", 3), Doc("B", 2), "alternate", 1).pages
        = << Doc("A", 3)[1], Doc("B", 2)[1], Doc("A", 3)[2], Doc("B", 2)[2],
             Doc("A", 3)[3] >>

\* C13: alternate interleave with start_from s >= 1 outputs, for n = s, s+1,
\* ..., A's page n (if n <= pa) then B's page n (if n <= pb); every page
\* numbered >= s of each document occurs exactly once; A=3, B=2, s=1 gives
\* [A1,B1,A2,B2,A3].
C13_AlternateOrder ==
    /\ C13_Example
    /\ Interleaved /\ last.mode = "alternate" /\ last.start_from >= 1 =>
          /\ last.assembled[1]
                = AlternateExpected(SrcPagesA, SrcPagesB, last.start_from)
          /\ last.srcs[1] # last.srcs[2] =>
                \A n \in 1..MaxPages :
                   /\ n <= Len(SrcPagesA) =>
                         Occurrences(last.assembled[1], SrcPagesA[n])
                            = IF n >= last.start_from THEN 1 ELSE 0
                   /\ n <= Len(SrcPagesB) =>
                         Occurrences(last.assembled[1], SrcPagesB[n])
                            = IF n >= last.start_from THEN 1 ELSE 0

\* A has 2 pages, B has 1: once B is exhausted A alone contributes
C13_Witness ==
    /\ Interleaved /\ last.mode = "alternate" /\ last.start_from = 1
    /\ last.srcs = <<SrcA, SrcB>>
    /\ Len(SrcPagesA) = 2 /\ Len(SrcPagesB) = 1
    /\ last.assembled[1] = <<SrcPagesA[1], SrcPagesB[1], SrcPagesA[2]>>
    /\ last.msgs = <<"info">>

ParityModes == Modes \ {"alternate"}

Odd(i) == i % 2 = 1

\* for i = s, s+1, ...: the page of A and the page of B that the mode names for
\* the page number i
ParityExpected(A, B, mode, s) ==
    Flatten([k \in 1..(Max(Len(A), Len(B)) - s + 1) |->
                LET i == s + k - 1
                    fromA == /\ i <= Len(A)
                             /\ \/ mode \in {"a_odd_b_even", "a_odd"} /\ Odd(i)
                                \/ mode = "a_even_b_odd" /\ ~Odd(i)
                    fromB == /\ i <= Len(B)
                             /\ \/ mode \in {"a_odd_b_even", "b_even"} /\ ~Odd(i)
                                \/ mode = "a_even_b_odd" /\ Odd(i)
                IN  (IF fromA THEN <<A[i]>> ELSE <<>>)
                    \o (IF fromB THEN <<B[i]>> ELSE <<>>)])

C14_Example ==
    Interleave(Doc("A", 4), Doc("B", 4), "a_odd_b_even", 1).pages
        = << Doc("A", 4)[1], Doc("B", 4)[2], Doc("A", 4)[3], Doc("B", 4)[4] >>

\* C14: in the four parity modes the output runs through the page numbers i
\* from start_from (a 1-based page number) upwards and takes, by the parity of
\* i, A's page i and B's page i as the mode says; A=4, B=4, start 1,
\* a_odd_b_even gives [A1,B2,A3,B4].
C14_ParityModes ==
    /\ C14_Example
    /\ Interleaved /\ last.mode \in ParityModes /\ last.start_from >= 1 =>
          last.assembled[1]
             = ParityExpected(SrcPagesA, SrcPagesB, last.mode, last.start_from)

C14_Witness ==
    /\ Interleaved /\ last.mode = "a_even_b_odd" /\ last.start_from = 1
    /\ last.srcs = <<SrcA, SrcB>>
    /\ Len(SrcPagesA) = 2 /\ Len(SrcPagesB) = 2
    /\ last.assembled[1] = <<SrcPagesB[1], SrcPagesA[2]>>
    /\ last.msgs = <<"info">>

\* C15: for start_from >= 1, in every mode, no page whose 1-based number is
\* below start_from is in the output.
C15_NothingBeforeStart ==
    Interleaved /\ last.start_from >= 1 =>
        \A k \in 1..Len(last.assembled[1]) :
            last.assembled[1][k].num >= last.start_from

C15_Witness ==
    /\ Interleaved /\ last.mode = "alternate" /\ last.start_from = 2
    /\ last.srcs = <<SrcA, SrcB>>
    /\ Len(SrcPagesA) = 2 /\ Len(SrcPagesB) = 2
    /\ last.assembled[1] = <<SrcPagesA[2], SrcPagesB[2]>>

\* C16: with a mode that is none of the five, interleave (once it has read
\* both documents and has a save path) shows an error and writes no file.
C16_UnknownModeFails ==
    /\ pc = "done" /\ last.op = "interleave"
    /\ last.mode \notin Modes /\ last.out_path # <<>>
    => /\ last.msgs = <<"error">>
       /\ last.assembled = <<>>
       /\ ~exists(fs, last.out_path)
       /\ DOMAIN fs = Sources

C16_Witness ==
    /\ pc = "done" /\ last.op = "interleave"
    /\ last.mode = "unknown" /\ last.out_path = OutLower
    /\ last.start_from = 1
    /\ Len(SrcPagesA) = 2
    /\ last.msgs = <<"error">>

\* --------------------------------- claims about merge, reverse, extract
\* the pages of the file the single-file handlers work on
SelectedPages == fs[SelectedPath].pages

\* the sum of the page counts of the listed files
RECURSIVE TotalPages(_)
TotalPages(paths) ==
    IF paths = <<>> THEN 0 ELSE Len(fs[Head(paths)].pages) + TotalPages(Tail(paths))

\* C17: merge outputs the concatenation of the listed documents in list order,
\* each in its own page order; the page count it reports is the sum of the
\* sources' page counts.
C17_MergeInListOrder ==
    pc = "done" /\ last.op = "merge" /\ last.assembled # <<>> =>
        /\ last.srcs = items
        /\ last.assembled[1] = Flatten([k \in 1..Len(items) |-> fs[items[k]].pages])
        /\ Len(last.assembled[1]) = TotalPages(items)
        /\ last.msgs = <<"info">> => last.count = TotalPages(items)
        /\ last.san = "ok" /\ exists(fs, last.out_path) =>
              fs[last.out_path].pages = last.assembled[1]

C17_Witness ==
    /\ pc = "done" /\ last.op = "merge" /\ last.msgs = <<"info">>
    /\ items = <<SrcB, SrcA>>
    /\ Len(fs[SrcA].pages) = 2 /\ Len(fs[SrcB].pages) = 1
    /\ last.count = 3
    /\ exists(fs, OutLower)
    /\ fs[OutLower].pages = <<fs[SrcB].pages[1], fs[SrcA].pages[1], fs[SrcA].pages[2]>>

\* C19: reverse outputs exactly the n pages of the source, output position k
\* (from 0) holding source page n-1-k.
C19_ReverseOrder ==
    pc = "done" /\ last.op = "reverse" /\ last.assembled # <<>> =>
        LET n == Len(SelectedPages)
        IN  /\ Len(last.assembled[1]) = n
            /\ \A k \in 0..(n - 1) :
                   last.assembled[1][k + 1] = SelectedPages[(n - 1 - k) + 1]
            /\ last.san = "ok" /\ exists(fs, last.out_path) =>
                  fs[last.out_path].pages = last.assembled[1]

C19_Witness ==
    /\ pc = "done" /\ last.op = "reverse" /\ last.msgs = <<"info">>
    /\ Len(SelectedPages) = 2
    /\ exists(fs, OutLower)
    /\ fs[OutLower].pages = <<SelectedPages[2], SelectedPages[1]>>

\* the index sequence 0..n-1
FullIndices(n) == [k \in 1..n |-> k - 1]

\* C20: extracting with an expression that resolves to the full index sequence
\* 0..n-1 of a document of n >= 1 pages outputs the source's pages, same count
\* and same order.
C20_FullExtractRoundTrip ==
    /\ pc = "done" /\ last.op = "extract" /\ last.assembled # <<>>
    /\ Len(SelectedPages) >= 1 /\ idxs = FullIndices(Len(SelectedPages))
    => /\ last.assembled[1] = SelectedPages
       /\ last.san = "ok" /\ exists(fs, last.out_path) =>
             fs[last.out_path].pages = SelectedPages

C20_Witness ==
    /\ pc = "done" /\ last.op = "extract" /\ last.msgs = <<"info">>
    /\ ranges_str = <<"1", "-", "2">>
    /\ Len(SelectedPages) = 2
    /\ idxs = <<0, 1>>
    /\ exists(fs, OutLower)
    /\ fs[OutLower].pages = SelectedPages

\* ------------------------------------------------- claims about split
\* ceil(t / n)
CeilDiv(t, n) == (t + n - 1) \div n

\* the page counts of the chunks split makes of a document of 25 pages by 10
C18_Example ==
    LET r == SplitFrom(NoFiles, Doc("A", 25), "A", 10, 1, 0, NoFault)
    IN  /\ [k \in 1..Len(r.assembled) |-> Len(r.assembled[k])] = <<10, 10, 5>>
        /\ Flatten(r.assembled) = Doc("A", 25)
        /\ r.out_paths[3] = <<OutDir, "A", "_part_", "2", "1", "-", "2", "5", ".pdf">>

\* C18: split of a document of T pages every N pages makes ceil(T/N) outputs;
\* output k (from 0) holds the source pages k*N .. min((k+1)*N, T)-1 in order;
\* each output has between 1 and N pages and the outputs in order make up the
\* source; T=25, N=10 gives the page counts [10,10,5].
C18_SplitChunks ==
    /\ C18_Example
    /\ pc = "done" /\ last.op = "split" /\ last.n >= 1 /\ ~last.raised =>
          LET T == Len(SelectedPages)
              N == last.n
              out == last.assembled
          IN  /\ Len(out) = CeilDiv(T, N)
              /\ Len(last.out_paths) = Len(out)
              /\ \A k \in 0..(Len(out) - 1) :
                     /\ out[k + 1] = SubSeq(SelectedPages, k * N + 1, Min((k + 1) * N, T))
                     /\ Len(out[k + 1]) \in 1..N
                     /\ last.san = "ok" =>
                           /\ exists(fs, last.out_paths[k + 1])
                           /\ fs[last.out_paths[k + 1]].pages = out[k + 1]
              /\ Flatten(out) = SelectedPages
              /\ \A j, k \in 1..Len(out) : j # k => last.out_paths[j] # last.out_paths[k]

\* 2 pages split every 1 page: two files of one page each
C18_Witness ==
    /\ pc = "done" /\ last.op = "split" /\ last.n = 1 /\ last.msgs = <<"info">>
    /\ last.san = "ok"
    /\ Len(SelectedPages) = 2
    /\ Len(last.assembled) = 2
    /\ fs[last.out_paths[1]].pages = <<SelectedPages[1]>>
    /\ fs[last.out_paths[2]].pages = <<SelectedPages[2]>>

\* ------------------------------------------------ claims about rotate
\* a rotate that got a save path
RotateAsked == pc = "done" /\ last.op = "rotate" /\ last.out_path # <<>>

\* str.strip() leaves nothing: the expression is empty or only blanks
IsBlank(str) == \A k \in 1..Len(str) : str[k] = " "

\* degrees reduced modulo 360 into 0..359
Reduced(degrees) == degrees % 360

\* the source page at position k (from 1) with r added to its rotation
Turned(k, r) == [SelectedPages[k] EXCEPT !.rot = @ + r]

\* C21: with an empty or blank range expression rotate applies the rotation to
\* every page of the document.
C21_BlankRangeRotatesAll ==
    RotateAsked /\ IsBlank(ranges_str) /\ last.assembled # <<>> =>
        /\ idxs = FullIndices(Len(SelectedPages))
        /\ Len(last.assembled[1]) = Len(SelectedPages)
        /\ \A k \in 1..Len(SelectedPages) :
               last.assembled[1][k] = Turned(k, Reduced(last.degrees))

C21_Witness ==
    /\ RotateAsked /\ ranges_str = <<" ">> /\ last.degrees = 90
    /\ last.msgs = <<"info">>
    /\ Len(SelectedPages) = 2
    /\ SelectedPages[1].rot = 90
    /\ exists(fs, OutLower)
    /\ fs[OutLower].pages = <<Turned(1, 90), Turned(2, 90)>>

\* the pages rotate wrote are the source pages, those named by idxs turned by
\* the reduced angle and the others as they were
RotatedByReduced ==
    /\ last.assembled # <<>>
    /\ Len(last.assembled[1]) = Len(SelectedPages)
    /\ \A k \in 1..Len(SelectedPages) :
           last.assembled[1][k] =
               IF (k - 1) \in Elems(idxs)
               THEN Turned(k, Reduced(last.degrees))
               ELSE SelectedPages[k]

\* C22 as stated: every integer angle is reduced modulo 360 and the reduced
\* value is added to the rotation each selected page already has (nothing is
\* added when it is 0).
C22_AnyDegreeAdded ==
    RotateAsked /\ idxs # <<>> => RotatedByReduced

\* C22 amended: an angle whose reduction modulo 360 is a multiple of 90 is added
\* to the rotation each selected page already has (0 leaves the page as it
\* was); any other angle makes the transform raise and no page is written.
C22_RightAnglesAdded ==
    RotateAsked /\ idxs # <<>> =>
        IF Reduced(last.degrees) % 90 = 0
        THEN RotatedByReduced
        ELSE last.raised /\ last.assembled = <<>> /\ ~exists(fs, last.out_path)

C22_Witness ==
    /\ RotateAsked /\ last.degrees = 0 - 90 /\ idxs = <<1>>
    /\ Len(SelectedPages) = 2
    /\ SelectedPages[2].rot = 90
    /\ last.assembled = << <<SelectedPages[1], Turned(2, 270)>> >>
    /\ last.msgs = <<"info">>

\* ------------------------------------------- claims about the conversions
\* a batch conversion of office files that got files and an output folder
OfficeBatch ==
    pc = "done" /\ last.op \in {"ppt", "excel", "word"} /\ last.srcs # <<>>

\* the final PDF of the k-th file of the batch
FinalOf(k) == <<OutDir, BaseName(last.srcs[k]), ".pdf">>

\* the final PDF of the k-th file is on disk and holds that file's pages
FinalIntact(k) ==
    /\ exists(fs, FinalOf(k))
    /\ fs[FinalOf(k)].kind = "pdf"
    /\ \A i \in 1..Len(fs[FinalOf(k)].pages) :
           fs[FinalOf(k)].pages[i].doc = last.srcs[k]

\* nothing on disk was made of the k-th file of the batch
Untouched(k) ==
    \A path \in DOMAIN fs :
        fs[path].kind = "pdf" =>
            \A i \in 1..Len(fs[path].pages) : fs[path].pages[i].doc # last.srcs[k]

\* the batch ended at its first failing file: that file is the last one
\* attempted, the error is shown once and nothing was made of a later file
AbortedAtFirstFailure ==
    /\ last.msgs = <<"error">>
    /\ Len(last.calls) = last.count + 1
    /\ Len(last.calls) <= Len(last.srcs)
    /\ \A k \in (Len(last.calls) + 1)..Len(last.srcs) : Untouched(k)

\* C23: in a batch conversion the first file whose conversion or sanitize
\* raises ends the batch: no later file is attempted, the error is shown once,
\* and the final PDFs of the earlier files stay as they were written.
C23_BatchAbortsOnFirstFailure ==
    OfficeBatch /\ "error" \in Elems(last.msgs) =>
        /\ AbortedAtFirstFailure
        /\ \A k \in 1..last.count : FinalIntact(k)

\* the part of C23 that holds: the abort itself, and the earlier final PDFs
\* when no two files of the batch share a base name
C23_AbortWithDistinctNames ==
    OfficeBatch /\ "error" \in Elems(last.msgs) =>
        /\ AbortedAtFirstFailure
        /\ (\A i, j \in 1..Len(last.srcs) : FinalOf(i) = FinalOf(j) => i = j)
              => \A k \in 1..last.count : FinalIntact(k)

C23_AbortWitness ==
    /\ OfficeBatch /\ last.op = "word" /\ last.msgs = <<"error">>
    /\ last.srcs = << <<"d1/", "report", ".docx">>, <<"d1/", "notes", ".docx">> >>
    /\ last.count = 1 /\ Len(last.calls) = 2 /\ ~last.calls[2].raised
    /\ FinalIntact(1)
    /\ exists(fs, FinalOf(2)) /\ fs[FinalOf(2)] = PartialFile

\* C24: convert_office_doc_to_pdf invokes Office first and LibreOffice exactly
\* when Office raised; it succeeds when either converter succeeds and raises
\* only when both failed, with one error that quotes both causes.
C24_OfficeThenLibreOffice ==
    OfficeBatch =>
        \A k \in 1..Len(last.calls) :
            LET c == last.calls[k]
            IN  /\ c.tried = IF c.conv = "office" THEN <<"office">>
                                                  ELSE <<"office", "libre">>
                /\ c.raised <=> c.conv = "fail"
                /\ c.causes = IF c.raised THEN {"office", "libre"} ELSE {}

C24_Witness ==
    /\ OfficeBatch /\ last.op = "ppt"
    /\ Len(last.srcs) = 2 /\ Len(last.calls) = 2
    /\ last.calls[1].tried = <<"office">> /\ ~last.calls[1].raised
    /\ last.calls[2].tried = <<"office", "libre">> /\ last.calls[2].raised
    /\ last.calls[2].causes = {"office", "libre"}
    /\ last.msgs = <<"error">>

C24_FallbackWitness ==
    /\ OfficeBatch /\ last.op = "word"
    /\ last.calls = << [conv |-> "libre", tried |-> <<"office", "libre">>,
                        raised |-> FALSE, causes |-> {}] >>
    /\ last.msgs = <<"info">>
    /\ FinalIntact(1)

\* ------------------------------------------------- claims about deletion
\* a deletion that got a save path and reached its status message
Deleted ==
    pc = "done" /\ last.op = "delete" /\ last.assembled # <<>> /\ ~last.raised

\* the numbers of "Am sters {len(to_delete)} pagini. Pastrate {kept}.": kept
\* counts the add_page calls, to_delete is set(idxs)
ReportedKept == Len(last.assembled[1])

ReportedDeleted == Cardinality(Elems(idxs))

\* out holds exactly the pages of src whose 0-based position is not in
\* deleted, each once, in ascending position
IsComplement(out, src, deleted) ==
    /\ \A i \in 1..Len(out) : out[i] \in Elems(src) /\ (out[i].num - 1) \notin deleted
    /\ \A k \in 1..Len(src) : (k - 1) \notin deleted => src[k] \in Elems(out)
    /\ \A i, j \in 1..Len(out) : i < j => out[i].num < out[j].num

\* deleting "4,2-1" and "2-1,4" from four pages keeps page 3
C25_Example ==
    /\ parse_page_ranges(<<"4", ",", "2", "-", "1">>, 4) = <<3, 1, 0>>
    /\ KeptPages(Doc("A", 4), {3, 1, 0}) = <<Doc("A", 4)[3]>>
    /\ KeptPages(Doc("A", 4), Elems(parse_page_ranges(<<"2", "-", "1", ",", "4">>, 4)))
           = <<Doc("A", 4)[3]>>

AssemblyOps == {"merge", "interleave", "extract", "delete", "rotate", "reverse"}

\* an assembly handler showed its success message
ReportedSuccess ==
    /\ pc = "done" /\ last.op \in AssemblyOps
    /\ last.assembled # <<>> /\ "info" \in Elems(last.msgs)

\* a PDF holding the assembled pages is at the chosen output path
OutputOnDisk ==
    /\ exists(fs, last.out_path)
    /\ fs[last.out_path].kind = "pdf"
    /\ fs[last.out_path].pages = last.assembled[1]

\* C26: when an assembly handler reports success, a file holding the assembled
\* pages is at the chosen output path, whatever path the save dialog gave, one
\* without a lowercase ".pdf" included.
C26_SuccessLeavesOutput ==
    ReportedSuccess => OutputOnDisk

\* the part of C26 that holds: a path with a lowercase ".pdf" and no failing
\* file operation
C26_LowercaseLeavesOutput ==
    ReportedSuccess /\ last.out_path = OutLower /\ last.san = "ok" => OutputOnDisk

\* success reported for OUT.PDF, and no file there
C26_UppercaseLost ==
    /\ ReportedSuccess /\ last.op = "merge" /\ last.out_path = OutUpper
    /\ last.san = "ok" /\ last.assembled[1] # <<>>
    /\ ~exists(fs, OutUpper)

\* C27: whenever a handler has returned or raised, the busy indicator is
\* hidden, the interleave and rotate handlers whose work raised included.
C27_BusyHiddenAfterHandler ==
    pc = "done" => ~busy

\* the part of C27 that holds: the handlers that wrap their work in
\* try/finally, and interleave and rotate when their work does not raise
C27_BusyHiddenUnlessLambdaRaised ==
    pc = "done" /\ ~(last.op \in {"interleave", "rotate"} /\ last.raised) => ~busy

\* rotate by 45 degrees raised and the indicator is still shown
C27_BusyLeftOn ==
    /\ pc = "done" /\ last.op = "rotate" /\ last.degrees = 45
    /\ last.raised /\ busy

\* an interleave whose write failed left the indicator shown
C27_BusyLeftOnByInterleave ==
    /\ pc = "done" /\ last.op = "interleave" /\ last.assembled # <<>>
    /\ last.raised /\ busy

\* ------------------------------------- claims about interleave's start page
\* an interleave that reached the loop of one of the five modes
ReachedLoop ==
    /\ pc = "done" /\ last.op = "interleave"
    /\ last.mode \in Modes /\ last.out_path # <<>>

\* reader.pages[i] raised IndexError: the handler ended by an exception before
\* anything was assembled
IndexErrorRaised == last.raised /\ last.assembled = <<>>

\* every page of the two (different) source documents is in the writer at
\* most once
PlacedAtMostOnce ==
    last.assembled # <<>> /\ last.srcs[1] # last.srcs[2] =>
        \A pg \in Elems(SrcPagesA) \cup Elems(SrcPagesB) :
            Occurrences(last.assembled[1], pg) <= 1

\* C28: for every integer start page that reaches _do_interleave, values of 0
\* and below included, each mode reads only page indices inside 0..len-1 (no
\* read fails, none wraps round to the end of the document) and places each
\* source page at most once.
C28_StartFromInRange ==
    ReachedLoop => ~IndexErrorRaised /\ PlacedAtMostOnce

\* the part of C28 that holds: start pages from 1 on
C28_PositiveStartInRange ==
    ReachedLoop /\ last.start_from >= 1 => ~IndexErrorRaised /\ PlacedAtMostOnce

\* start page 0 in mode alternate: pages[-1] puts the last page of each
\* document in front, and the loop then places it again
C28_LastPageTwice ==
    /\ ReachedLoop /\ last.mode = "alternate" /\ last.start_from = 0
    /\ last.srcs = <<SrcA, SrcB>>
    /\ Len(SrcPagesA) = 2 /\ Len(SrcPagesB) = 1
    /\ last.assembled = << <<SrcPagesA[2], SrcPagesB[1], SrcPagesA[1], SrcPagesB[1],
                             SrcPagesA[2]>> >>
    /\ last.msgs = <<"info">>

\* start page 0 on an empty document: pages[-1] raises IndexError
C28_IndexError ==
    /\ ReachedLoop /\ last.mode = "b_even" /\ last.start_from = 0
    /\ Len(SrcPagesB) = 0
    /\ IndexErrorRaised /\ busy

\* ------------------------------------ claims about rotate's empty selection
\* C29: a rotate whose range expression is not blank and resolves to no valid
\* page rotates no page (an empty selection is not taken as "all pages"), still
\* writes every source page in order, unrotated, and reports success.
C29_EmptySelectionRotatesNothing ==
    /\ RotateAsked /\ ~IsBlank(ranges_str)
    /\ parse_page_ranges(ranges_str, Len(SelectedPages)) = <<>>
    =>  /\ idxs = <<>>
        /\ last.assembled = <<SelectedPages>>
        /\ ~last.raised => last.msgs = <<"info">>
        /\ ~last.raised /\ last.san = "ok" /\ last.out_path = OutLower =>
               exists(fs, OutLower) /\ fs[OutLower].pages = SelectedPages

C29_Witness ==
    /\ RotateAsked /\ ranges_str = <<"9">> /\ idxs = <<>> /\ last.degrees = 90
    /\ Len(SelectedPages) = 2 /\ SelectedPages[1].rot = 90
    /\ last.assembled = <<SelectedPages>>
    /\ last.msgs = <<"info">> /\ last.san = "ok"
    /\ exists(fs, OutLower) /\ fs[OutLower].pages = SelectedPages

\* ------------------------------------------ claims about a batch's outputs
\* a batch conversion that showed its success message
BatchDone == OfficeBatch /\ last.msgs = <<"info">>

\* the final paths of the batch's files
FinalPaths == {FinalOf(k) : k \in 1..Len(last.srcs)}

\* C30: a batch conversion that reports k converted files has left k distinct
\* final PDFs, one for each input file; no file's final or intermediate output
\* overwrites the final PDF of another, files with equal base names included.
C30_OneFinalPerInput ==
    BatchDone =>
        /\ last.count = Len(last.srcs)
        /\ Cardinality(FinalPaths) = last.count
        /\ \A k \in 1..Len(last.srcs) : FinalIntact(k)

\* the part of C30 that holds: batches without equal base names
C30_OneFinalPerDistinctName ==
    BatchDone /\ Cardinality(FinalPaths) = Len(last.srcs) =>
        /\ last.count = Len(last.srcs)
        /\ \A k \in 1..Len(last.srcs) : FinalIntact(k)

\* two files named report: 2 reported, one final PDF, holding the second
C30_Overwritten ==
    /\ BatchDone /\ last.op = "word" /\ last.count = 2
    /\ last.srcs = << <<"d1/", "report", ".docx">>, <<"d2/", "report", ".docx">> >>
    /\ last.flt = NoFault
    /\ DOMAIN fs = { <<OutDir, "report", ".pdf">> }
    /\ ~FinalIntact(1) /\ FinalIntact(2)

====
